---- MODULE Spec2Model ----
(***************************************************************************)
(* A model of extract_questions.py: the AZF question extractor.            *)
(*                                                                         *)
(* Text is modelled as TLA+ strings over ASCII, character by character:    *)
(* every regular expression of the source is an operator that scans the    *)
(* characters the way the regular expression does.                         *)
(***************************************************************************)
EXTENDS Integers, Sequences, FiniteSets, TLC

(***************************************************************************)
(* Characters and Python string primitives                                 *)
(***************************************************************************)
Min(S) == CHOOSE m \in S : \A n \in S : m <= n

Max(S) == CHOOSE m \in S : \A n \in S : m >= n

Ch(s, i) == SubSeq(s, i, i)

\* \d of the re module, over ASCII
Digits == {"0", "1", "2", "3", "4", "5", "6", "7", "8", "9"}

\* \s of the re module and the characters str.strip() removes, over the
\* characters a document of the model can hold
Whitespace == {" ", "\n", "\t"}

UpperCase ==
  {"A", "B", "C", "D", "E", "F", "G", "H", "I", "J", "K", "L", "M",
   "N", "O", "P", "Q", "R", "S", "T", "U", "V", "W", "X", "Y", "Z"}

\* str.lower() of one character, the case folding of re.IGNORECASE on ASCII
Lower(c) ==
  IF c \notin UpperCase THEN c ELSE
  CASE c = "A" -> "a" []
       c = "B" -> "b" []
       c = "C" -> "c" []
       c = "D" -> "d" []
       c = "E" -> "e" []
       c = "F" -> "f" []
       c = "G" -> "g" []
       c = "H" -> "h" []
       c = "I" -> "i" []
       c = "J" -> "j" []
       c = "K" -> "k" []
       c = "L" -> "l" []
       c = "M" -> "m" []
       c = "N" -> "n" []
       c = "O" -> "o" []
       c = "P" -> "p" []
       c = "Q" -> "q" []
       c = "R" -> "r" []
       c = "S" -> "s" []
       c = "T" -> "t" []
       c = "U" -> "u" []
       c = "V" -> "v" []
       c = "W" -> "w" []
       c = "X" -> "x" []
       c = "Y" -> "y" []
       c = "Z" -> "z" []
       OTHER -> c

\* str.lower(): the case folding of a whole string, by halves
RECURSIVE LowerStr(_)
LowerStr(s) ==
  IF Len(s) <= 1 THEN Lower(s)
  ELSE LowerStr(SubSeq(s, 1, Len(s) \div 2))
         \o LowerStr(SubSeq(s, Len(s) \div 2 + 1, Len(s)))

\* the literal pat matches s at position i, ignoring case
MatchAt(s, i, pat) ==
  /\ i >= 1
  /\ i + Len(pat) - 1 <= Len(s)
  /\ Lower(Ch(s, i)) = Lower(Ch(pat, 1))
  /\ LowerStr(SubSeq(s, i, i + Len(pat) - 1)) = LowerStr(pat)

\* position of the first match of the literal pat at or after from, 0 if none
Find(s, pat, from) ==
  LET ls == LowerStr(s)
      lp == LowerStr(pat)
      S == {i \in from..(Len(s) - Len(pat) + 1) : SubSeq(ls, i, i + Len(pat) - 1) = lp}
  IN  IF S = {} THEN 0 ELSE Min(S)

\* position of the first character of s at or after i that is not in set,
\* Len(s) + 1 if there is none: the end of a greedy run of set characters
RECURSIVE RunEnd(_, _, _)
RunEnd(s, i, set) ==
  IF i > Len(s) \/ Ch(s, i) \notin set THEN i ELSE RunEnd(s, i + 1, set)

\* position of the next newline at or after i, Len(s) + 1 if there is none
LineEnd(s, i) ==
  LET S == {j \in i..Len(s) : Ch(s, j) = "\n"}
  IN  IF S = {} THEN Len(s) + 1 ELSE Min(S)

\* str.strip()
Strip(s) ==
  LET N == {k \in 1..Len(s) : Ch(s, k) \notin Whitespace}
  IN  IF N = {} THEN "" ELSE SubSeq(s, Min(N), Max(N))

\* str.rstrip()
RStrip(s) ==
  LET N == {k \in 1..Len(s) : Ch(s, k) \notin Whitespace}
  IN  IF N = {} THEN "" ELSE SubSeq(s, 1, Max(N))

\* str.split('\n')
RECURSIVE SplitLines(_)
SplitLines(s) ==
  LET e == LineEnd(s, 1)
  IN  IF e > Len(s) THEN <<s>>
      ELSE <<SubSeq(s, 1, e - 1)>> \o SplitLines(SubSeq(s, e + 1, Len(s)))

\* ' '.join(lines)
RECURSIVE JoinSpace(_)
JoinSpace(ls) ==
  IF ls = <<>> THEN ""
  ELSE IF Len(ls) = 1 THEN ls[1]
  ELSE ls[1] \o " " \o JoinSpace(Tail(ls))

(***************************************************************************)
(* parse_azf_document: the first clean-up of the text                      *)
(***************************************************************************)
\* re.sub(pat + r'.*?(?=\n|$)', '', s, flags=re.IGNORECASE): every match of
\* the literal pat is removed together with the rest of its line
RECURSIVE StripToLineEnd(_, _)
StripToLineEnd(s, pat) ==
  LET i == Find(s, pat, 1)
  IN  IF i = 0 THEN s
      ELSE SubSeq(s, 1, i - 1)
             \o StripToLineEnd(SubSeq(s, LineEnd(s, i + Len(pat)), Len(s)), pat)

\* end of a match of r'Seite / page \d+ von / of \d+' that starts at i (the
\* position after its last character), 0 if there is no match at i
PageMarkerEnd(s, i) ==
  LET p1 == "Seite / page "
      p2 == " von / of "
      d1 == i + Len(p1)
      e1 == RunEnd(s, d1, Digits)
      d2 == e1 + Len(p2)
      e2 == RunEnd(s, d2, Digits)
  IN  IF /\ MatchAt(s, i, p1)
         /\ e1 > d1
         /\ MatchAt(s, e1, p2)
         /\ e2 > d2
      THEN e2 ELSE 0

\* re.sub(r'Seite / page \d+ von / of \d+', '', s, flags=re.IGNORECASE),
\* scanning from position from on
RECURSIVE StripPageMarkersFrom(_, _)
StripPageMarkersFrom(s, from) ==
  LET i == Find(s, "Seite / page ", from)
  IN  IF i = 0 THEN SubSeq(s, from, Len(s))
      ELSE IF PageMarkerEnd(s, i) = 0
      THEN SubSeq(s, from, i) \o StripPageMarkersFrom(s, i + 1)
      ELSE SubSeq(s, from, i - 1) \o StripPageMarkersFrom(s, PageMarkerEnd(s, i))

StripPageMarkers(s) == StripPageMarkersFrom(s, 1)

\* The five substitutions at the head of parse_azf_document.  The fifth
\* pattern holds non-ASCII characters, so on the ASCII text of the model it
\* never matches and its substitution leaves the text as it is.
StripBoilerplate(s) ==
  StripPageMarkers(
    StripToLineEnd(
      StripToLineEnd(
        StripToLineEnd(s, "Stand / As at::"),
        "richtige Antwort immer A /"),
      "correct answer always A"))

(***************************************************************************)
(* parse_azf_document: splitting the text at the question numbers          *)
(***************************************************************************)
\* A match of r'(?:^|\n)(\d+)\s+' that starts at position p, as
\* <<first digit, position after the digits, position after the match>>;
\* <<>> if there is none.  '^' matches at the start of the text only.
NumberMatchAt(s, p) ==
  LET try(d) ==
        LET de == RunEnd(s, d, Digits)
            se == RunEnd(s, de, Whitespace)
        IN  IF de > d /\ se > de THEN <<d, de, se>> ELSE <<>>
      atStart == IF p = 1 THEN try(1) ELSE <<>>
  IN  IF atStart # <<>> THEN atStart
      ELSE IF p <= Len(s) /\ Ch(s, p) = "\n" THEN try(p + 1)
      ELSE <<>>

\* the parts of re.split from scan position p on; the part being collected
\* starts at position p too
RECURSIVE SplitFrom(_, _)
SplitFrom(s, p) ==
  LET S == {q \in p..Len(s) : NumberMatchAt(s, q) # <<>>}
  IN  IF S = {} THEN <<SubSeq(s, p, Len(s))>>
      ELSE LET q == Min(S)
               m == NumberMatchAt(s, q)
           IN  <<SubSeq(s, p, q - 1), SubSeq(s, m[1], m[2] - 1)>>
                 \o SplitFrom(s, m[3])

\* parts = re.split(r'(?:^|\n)(\d+)\s+', text)
Split(s) == SplitFrom(s, 1)

\* start_idx = 1 if parts[0].strip() == '' or not parts[0].strip()[0].isdigit() else 0
StartIdx(ps) ==
  IF Strip(ps[1]) = "" \/ Ch(Strip(ps[1]), 1) \notin Digits THEN 1 ELSE 0

(***************************************************************************)
(* parse_azf_document: one block                                           *)
(***************************************************************************)
DigitValue(c) == CHOOSE v \in 0..9 : Ch("0123456789", v + 1) = c

\* the digits of int's argument once the sign is taken off
IntBody(x) ==
  LET t == Strip(x)
  IN  IF t # "" /\ Ch(t, 1) \in {"+", "-"} THEN SubSeq(t, 2, Len(t)) ELSE t

\* int(x) does not raise ValueError
IsIntLiteral(x) ==
  /\ IntBody(x) # ""
  /\ \A k \in 1..Len(IntBody(x)) : Ch(IntBody(x), k) \in Digits

RECURSIVE DigitsValue(_)
DigitsValue(d) ==
  IF d = "" THEN 0
  ELSE 10 * DigitsValue(SubSeq(d, 1, Len(d) - 1)) + DigitValue(Ch(d, Len(d)))

\* int(x), for an x that int accepts
IntOf(x) ==
  IF Ch(Strip(x), 1) = "-" THEN 0 - DigitsValue(IntBody(x))
  ELSE DigitsValue(IntBody(x))

\* re.sub(pat + '.*', '', s, flags=re.IGNORECASE | re.DOTALL): the text is
\* cut at the first match of the literal pat
TruncateAt(s, pat) ==
  LET i == Find(s, pat, 1)
  IN  IF i = 0 THEN s ELSE SubSeq(s, 1, i - 1)

\* the two substitutions on q_block
CleanBlock(q_block) ==
  StripToLineEnd(TruncateAt(q_block, "Stand / As at::"), "Seite / page")

\* re.match(r'^(Seite|page|\d+\s*/\s*\d+)', line, re.IGNORECASE)
IsPageLine(line) ==
  \/ MatchAt(line, 1, "Seite")
  \/ MatchAt(line, 1, "page")
  \/ LET de == RunEnd(line, 1, Digits)
         sl == RunEnd(line, de, Whitespace)
         d2 == RunEnd(line, sl + 1, Whitespace)
     IN  /\ de > 1
         /\ sl <= Len(line)
         /\ Ch(line, sl) = "/"
         /\ d2 <= Len(line)
         /\ Ch(line, d2) \in Digits

\* lines of the block: stripped, the empty ones and the page lines removed
BlockLines(q_block) ==
  LET raw == SplitLines(CleanBlock(q_block))
      stripped == [k \in 1..Len(raw) |-> Strip(raw[k])]
      nonEmpty == SelectSeq(stripped, LAMBDA l : l # "")
  IN  SelectSeq(nonEmpty, LAMBDA l : ~IsPageLine(l))

\* re.match(r'(Stand|richtige|correct|Pr..fungsfragen|Seite|page)', line,
\* re.IGNORECASE); the fourth word holds non-ASCII characters and matches no
\* line of ASCII text
IsHeaderLine(line) ==
  \E w \in {"Stand", "richtige", "correct", "Seite", "page"} : MatchAt(line, 1, w)

\* re.match(r'(Stand|richtige|correct|Seite|page)', line, re.IGNORECASE)
IsFooterLine(line) ==
  \E w \in {"Stand", "richtige", "correct", "Seite", "page"} : MatchAt(line, 1, w)

\* re.match(rf'^{letter}\s+\S', line)
IsOptionLine(line, letter) ==
  /\ Len(line) >= 1
  /\ Ch(line, 1) = letter
  /\ RunEnd(line, 2, Whitespace) > 2
  /\ RunEnd(line, 2, Whitespace) <= Len(line)

\* str.endswith('?') after rstrip()
EndsWithQuestionMark(line) ==
  LET t == RStrip(line) IN t # "" /\ Ch(t, Len(t)) = "?"

\* the test without its comparison of lengths
LooksLikeQuestionMarkOnly(lines, found) ==
  EndsWithQuestionMark(lines[found[1]])

\* The test that rejects a found A, B, C, D sequence; found holds the four
\* line positions.  avg_bcd_len is (b + c + d) / 3, so a_len > avg_bcd_len * 2
\* is 3 * a_len > 2 * (b + c + d) on integers.
LooksLikeQuestion(lines, found) ==
  \/ EndsWithQuestionMark(lines[found[1]])
  \/ 3 * Len(lines[found[1]])
       > 2 * (Len(lines[found[2]]) + Len(lines[found[3]]) + Len(lines[found[4]]))

\* range(idx + 1, min(idx + 20, len(lines)))
LookaheadWindow == 20

\* The inner loop from position la on (positions count from 1, last is the
\* final position of the window): TRUE when answer_start_idx is set.
RECURSIVE LookaheadFrom(_, _, _, _, _)
LookaheadFrom(lines, la, last, found_letters, search_for) ==
  IF la > last THEN FALSE
  ELSE IF IsFooterLine(lines[la])
  THEN LookaheadFrom(lines, la + 1, last, found_letters, search_for)
  ELSE IF search_for # <<>> /\ IsOptionLine(lines[la], search_for[1])
  THEN IF Len(found_letters) + 1 = 4
       THEN IF LooksLikeQuestion(lines, Append(found_letters, la))
            THEN LookaheadFrom(lines, la + 1, last, <<>>, <<"B", "C", "D">>)
            ELSE TRUE
       ELSE LookaheadFrom(lines, la + 1, last, Append(found_letters, la),
                          Tail(search_for))
  ELSE LookaheadFrom(lines, la + 1, last, found_letters, search_for)

\* the candidate A line at position idx is accepted as the start of the answers
AcceptedAt(lines, idx) ==
  LET top == idx + LookaheadWindow - 1
      last == IF top < Len(lines) THEN top ELSE Len(lines)
  IN  /\ ~IsHeaderLine(lines[idx])
      /\ IsOptionLine(lines[idx], "A")
      /\ LookaheadFrom(lines, idx + 1, last, <<idx>>, <<"B", "C", "D">>)

\* answer_start_idx, counting positions from 1; 0 stands for the source's -1
AnswerStartIdx(lines) ==
  LET S == {idx \in 1..Len(lines) : AcceptedAt(lines, idx)}
  IN  IF S = {} THEN 0 ELSE Min(S)

\* question_lines, for answer_start_idx = start
QuestionLines(lines, start) ==
  IF start > 0
  THEN SelectSeq(SubSeq(lines, 1, start - 1), LAMBDA l : ~IsHeaderLine(l))
  ELSE lines

\* answer_lines, for answer_start_idx = start
AnswerLines(lines, start) ==
  IF start > 0 THEN SubSeq(lines, start, Len(lines)) ELSE <<>>

\* re.match(r'^([ABCD])\s+(.+)', line) on a stripped line
IsAnswerLine(line) == \E letter \in {"A", "B", "C", "D"} : IsOptionLine(line, letter)

\* match.group(2)
AnswerTextPart(line) == SubSeq(line, RunEnd(line, 2, Whitespace), Len(line))

\* a slip in the key: the flag compares with a lower-case letter
AnswerRecordLowerCaseKey(line) ==
  [letter |-> Ch(line, 1),
   text |-> SubSeq(line, RunEnd(line, 2, Whitespace), Len(line)),
   correct |-> (Ch(line, 1) = "a")]

\* current_answer = {'letter': ..., 'text': ..., 'correct': letter == 'A'}
AnswerRecord(line) ==
  [letter |-> Ch(line, 1),
   text |-> AnswerTextPart(line),
   correct |-> (Ch(line, 1) = "A")]

\* The loop over answer_lines from position k on; cur is current_answer
\* (<<>> for None), answers the options saved so far.
RECURSIVE AssembleFrom(_, _, _, _)
AssembleFrom(answer_lines, k, answers, cur) ==
  IF k > Len(answer_lines)
  THEN answers \o cur
  ELSE LET line == answer_lines[k]
       IN  IF IsAnswerLine(line)
           THEN AssembleFrom(answer_lines, k + 1, answers \o cur,
                  <<AnswerRecord(line)>>)
           ELSE IF cur # <<>> /\ Strip(line) # "" /\ ~IsFooterLine(line)
           THEN AssembleFrom(answer_lines, k + 1, answers,
                  <<[cur[1] EXCEPT !.text = @ \o " " \o line]>>)
           ELSE AssembleFrom(answer_lines, k + 1, answers, cur)

\* position where a run of whitespace that ends just before k starts
RECURSIVE RunStart(_, _)
RunStart(s, k) ==
  IF k > 1 /\ Ch(s, k - 1) \in Whitespace THEN RunStart(s, k - 1) ELSE k

\* re.sub(r'\s*(Stand / As at::.*|richtige Antwort.*|correct answer.*|Seite.*|page.*)$',
\*        '', text, flags=re.IGNORECASE).strip()
\* An answer text holds no newline, so '.*$' runs to its end from wherever one
\* of the five words starts: the leftmost match starts at the whitespace
\* before the first place one of the words occurs.
CleanAnswerText(text) ==
  LET words == {"Stand / As at::", "richtige Antwort", "correct answer",
                "Seite", "page"}
      S == {Find(text, w, 1) : w \in words} \ {0}
  IN  IF S = {} THEN Strip(text)
      ELSE Strip(SubSeq(text, 1, RunStart(text, Min(S)) - 1))

\* answers after the clean-up of their texts
Answers(answer_lines) ==
  LET raw == AssembleFrom(answer_lines, 1, <<>>, <<>>)
  IN  [k \in 1..Len(raw) |-> [raw[k] EXCEPT !.text = CleanAnswerText(@)]]

\* what the body of the try statement computes from q_block
Block(q_block) ==
  LET lines == BlockLines(q_block)
      start == AnswerStartIdx(lines)
  IN  [lines |-> lines,
       answer_start_idx |-> start,
       question_text |-> Strip(JoinSpace(QuestionLines(lines, start))),
       answers |-> Answers(AnswerLines(lines, start))]

\* len(question_text) > 10
MinQuestionLength == 10

\* the validation with >= for ==
IsValidAtLeastFour(b) ==
  /\ Len(b.answers) >= 4
  /\ b.question_text # ""
  /\ Len(b.question_text) > MinQuestionLength

\* len(answers) == 4 and question_text and len(question_text) > 10
IsValid(b) ==
  /\ Len(b.answers) = 4
  /\ b.question_text # ""
  /\ Len(b.question_text) > MinQuestionLength

\* the two tests chained with elif: only the first unmet condition is named
SkipReasonFirstOnly(b) ==
  IF b.question_text = "" \/ Len(b.question_text) <= MinQuestionLength
  THEN "question text too short (" \o ToString(Len(b.question_text)) \o " chars)"
  ELSE IF Len(b.answers) # 4
  THEN "found " \o ToString(Len(b.answers)) \o " answers instead of 4"
  ELSE ""

\* ", ".join(reason)
SkipReason(b) ==
  LET short == IF b.question_text = "" \/ Len(b.question_text) <= MinQuestionLength
               THEN <<"question text too short (" \o ToString(Len(b.question_text))
                        \o " chars)">>
               ELSE <<>>
      count == IF Len(b.answers) # 4
               THEN <<"found " \o ToString(Len(b.answers)) \o " answers instead of 4">>
               ELSE <<>>
      reason == short \o count
  IN  IF reason = <<>> THEN ""
      ELSE IF Len(reason) = 1 THEN reason[1]
      ELSE reason[1] \o ", " \o reason[2]

\* A Python value that is an int or a str (the id of a skip entry is q_num
\* or 'unknown') is a record with the one field that names its type.
PyInt(n) == [int |-> n]

PyStr(x) == [str |-> x]

\* question_text[:100]
PreviewLength == 100

SkipEntry(id, b) ==
  [id |-> id,
   reason |-> SkipReason(b),
   answers_found |-> Len(b.answers),
   has_question |-> (b.question_text # ""),
   question_preview |-> IF b.question_text # ""
                        THEN SubSeq(b.question_text, 1,
                               IF Len(b.question_text) < PreviewLength
                               THEN Len(b.question_text) ELSE PreviewLength)
                        ELSE "N/A",
   answer_letters |-> [k \in 1..Len(b.answers) |-> b.answers[k].letter]]

\* repr(x) without its quotes, by halves: a newline and a tab are written
\* as escapes
RECURSIVE PyReprBody(_)
PyReprBody(x) ==
  IF Len(x) <= 1
  THEN (CASE x = "\n" -> "\\n" []
             x = "\t" -> "\\t" []
             OTHER -> x)
  ELSE PyReprBody(SubSeq(x, 1, Len(x) \div 2))
         \o PyReprBody(SubSeq(x, Len(x) \div 2 + 1, Len(x)))

\* the message of the ValueError that int(x) raises
IntErrorMessage(x) ==
  "invalid literal for int() with base 10: '" \o PyReprBody(x) \o "'"

\* the entry the except clause appends; id is q_num_val
ErrorEntry(id, x) ==
  [id |-> id,
   reason |-> "Exception: " \o IntErrorMessage(x),
   answers_found |-> 0,
   has_question |-> FALSE,
   question_preview |-> "N/A",
   answer_letters |-> <<>>]

(***************************************************************************)
(* The documents of the model                                              *)
(***************************************************************************)
\* The pieces a document is put together from, each one or more whole lines:
\* question-number lines with a long and a short stem, a stem line that looks
\* like an option, option lines alone and in runs, an A line much longer than
\* the others, a preamble line that starts with a digit, a number line whose
\* text is a number again, a plain line, and a line that starts with one of
\* the words the extractor takes for a header or footer.
Segments ==
  <<"1 What is the capital?",
    "2 Why?",
    "A strange question?",
    "A Paris\nB London\nC Berlin\nD Rome",
    "B London\nC Berlin\nD Rome",
    "A Paris is the capital city of France",
    "1.1 AZF",
    "5 5",
    "of Germany",
    "A Paris",
    "correct for Germany">>

\* the longest document, in segments
MaxSegs == 3

\* '\n'.join(ls)
RECURSIVE JoinLines(_)
JoinLines(ls) ==
  IF ls = <<>> THEN ""
  ELSE IF Len(ls) = 1 THEN ls[1]
  ELSE ls[1] \o "\n" \o JoinLines(Tail(ls))

\* the end-to-end example of the specification
ExampleDoc == "\n1 What is the capital?\nA Paris\nB London\nC Berlin\nD Rome\n\n2 ..."

\* a document whose preamble starts with a digit, followed by three blocks
MisalignedDoc == "1.1 AZF\n1 5\n2 Why?\n3 Why?"

\* a document with an option whose text ends with the word page, and no
\* boilerplate
PageWordDoc == "1 What is the capital?\nA Paris\nB London\nC Berlin\nD Home page"

DocSet ==
  {JoinLines([k \in 1..Len(f) |-> Segments[f[k]]]) :
     f \in UNION {[1..n -> 1..Len(Segments)] : n \in 0..MaxSegs}}
  \cup {ExampleDoc, MisalignedDoc, PageWordDoc}

(***************************************************************************)
(* parse_azf_document as a state machine: one step per loop iteration      *)
(***************************************************************************)
VARIABLES
  text,        \* the argument of parse_azf_document
  pc,          \* "start", "loop", "done"
  parts,       \* the list re.split returned
  i,           \* the loop variable, counting from 0 as the source does
  q_num,       \* the local q_num: <<>> until its first assignment, then <<n>>
  questions,
  skipped_questions,
  stdout,      \* what parse_azf_document printed, one entry per block
  main_pc,     \* where main is: "not_run" when parse_azf_document is called
               \* on its own
  PDF_AVAILABLE,  \* the module-level flag
  argv,        \* sys.argv[1:]
  io,          \* how each access to the file system went, see NoIo
  exit_status, \* <<>> while main runs, then <<the value main returned>>
  json_file,   \* <<>> or <<what json.dump wrote>>
  csv_file,    \* <<>> or <<the rows written>>
  log_file     \* <<>> or <<the extraction log>>

main_vars ==
  <<main_pc, PDF_AVAILABLE, argv, io, exit_status, json_file, csv_file, log_file>>

vars ==
  <<text, pc, parts, i, q_num, questions, skipped_questions, stdout, main_vars>>

\* no file has been touched yet
NoIo ==
  [exists |-> "untried", read |-> "untried", json |-> "untried",
   csv |-> "untried", log |-> "untried"]

\* parts[k] of the source
Part(k) == parts[k + 1]

\* the loop guard with the break one part early
InLoopOffByOne == pc = "loop" /\ i < Len(parts) /\ i + 2 < Len(parts)

\* the loop runs its body for i: i is in range(start_idx, len(parts), 2) and
\* the break on i + 1 >= len(parts) is not taken
InLoop == pc = "loop" /\ i < Len(parts) /\ i + 1 < Len(parts)

\* lines 133-152: the clean-up, the split and start_idx
Segment ==
  /\ pc = "start"
  /\ parts' = Split(StripBoilerplate(text))
  /\ i' = StartIdx(parts')
  /\ pc' = "loop"
  /\ UNCHANGED <<text, q_num, questions, skipped_questions, stdout, main_vars>>

\* one iteration in which the try body runs to its end: a record or a skip
\* entry is appended
ProcessBlock ==
  /\ InLoop
  /\ IsIntLiteral(Part(i))
  /\ LET b == Block(Part(i + 1))
         id == IntOf(Part(i))
     IN  IF IsValid(b)
         THEN /\ questions' = Append(questions,
                   [id |-> id, question |-> b.question_text, answers |-> b.answers])
              /\ stdout' = Append(stdout, [kind |-> "extracted", id |-> PyInt(id)])
              /\ UNCHANGED skipped_questions
         ELSE /\ skipped_questions' =
                   Append(skipped_questions, SkipEntry(PyInt(id), b))
              /\ stdout' = Append(stdout, [kind |-> "skipped", id |-> PyInt(id)])
              /\ UNCHANGED questions
  /\ q_num' = <<IntOf(Part(i))>>
  /\ i' = i + 2
  /\ UNCHANGED <<text, pc, parts, main_vars>>

\* one iteration in which int() raises: the except clause
FailBlock ==
  /\ InLoop
  /\ ~IsIntLiteral(Part(i))
  /\ LET q_num_val == IF q_num # <<>> THEN PyInt(q_num[1]) ELSE PyStr("unknown")
     IN  /\ skipped_questions' =
               Append(skipped_questions, ErrorEntry(q_num_val, Strip(Part(i))))
         /\ stdout' = Append(stdout, [kind |-> "error", id |-> q_num_val])
  /\ i' = i + 2
  /\ UNCHANGED <<text, pc, parts, q_num, questions, main_vars>>

\* the loop ends and parse_azf_document returns
Return ==
  /\ pc = "loop"
  /\ ~InLoop
  /\ pc' = "done"
  /\ UNCHANGED <<text, parts, i, q_num, questions, skipped_questions, stdout,
                 main_vars>>

Init ==
  /\ text \in DocSet
  /\ pc = "start"
  /\ parts = <<>>
  /\ i = 0
  /\ q_num = <<>>
  /\ questions = <<>>
  /\ skipped_questions = <<>>
  /\ stdout = <<>>
  /\ main_pc = "not_run"
  /\ PDF_AVAILABLE = FALSE
  /\ argv = <<>>
  /\ io = NoIo
  /\ exit_status = <<>>
  /\ json_file = <<>>
  /\ csv_file = <<>>
  /\ log_file = <<>>

Next == Segment \/ ProcessBlock \/ FailBlock \/ Return

Spec == Init /\ [][Next]_vars

(***************************************************************************)
(* main: the command line, the input file, parse_azf_document, the three   *)
(* output files, and the value handed to sys.exit                          *)
(***************************************************************************)
\* expected_total of main
expected_total == 289

\* the question numbers the input documents of main are written with
MainIds == <<1, 2, 3, 288, 289>>

\* the longest input document of main, in blocks
MaxBlocks == 3

\* a block main extracts, written with the number n
QuestionSegment(n) ==
  ToString(n) \o " What is the capital?\nA Paris\nB London\nC Berlin\nD Rome"

\* the blocks of the input documents of main: one that is extracted for each
\* number of MainIds, and one that is skipped
MainSegments ==
  [k \in 1..(Len(MainIds) + 1) |->
     IF k <= Len(MainIds) THEN QuestionSegment(MainIds[k]) ELSE "4 Why?"]

\* what reading the input file can return
MainDocs ==
  {JoinLines([k \in 1..Len(f) |-> MainSegments[f[k]]]) :
     f \in UNION {[1..n -> 1..Len(MainSegments)] : n \in 0..MaxBlocks}}
  \cup {MisalignedDoc}

\* the command lines main is run with
ArgvSet == {<<>>, <<"AZF.PDF">>, <<"azf.txt">>}

\* os.path.splitext(input_file)[1].lower() == '.pdf'
IsPdfPath(input_file) ==
  /\ Len(input_file) > 4
  /\ LowerStr(SubSeq(input_file, Len(input_file) - 3, Len(input_file))) = ".pdf"

\* main returns status
Exit(status) ==
  /\ main_pc' = "exit"
  /\ exit_status' = <<status>>

\* lines 329-353: the argument check and os.path.exists
CheckArgs ==
  /\ main_pc = "start"
  /\ IF Len(argv) < 1
     THEN Exit(1) /\ UNCHANGED io
     ELSE \E exists \in BOOLEAN :
            IF ~exists
            THEN Exit(1) /\ io' = [io EXCEPT !.exists = "failed"]
            ELSE /\ main_pc' = "read"
                 /\ io' = [io EXCEPT !.exists = "ok"]
                 /\ UNCHANGED exit_status
  /\ UNCHANGED <<text, pc, parts, i, q_num, questions, skipped_questions, stdout,
                 PDF_AVAILABLE, argv, json_file, csv_file, log_file>>

\* lines 355-378: the input is read, through read_pdf_file or open
ReadInput ==
  /\ main_pc = "read"
  /\ IF IsPdfPath(argv[1]) /\ ~PDF_AVAILABLE
     THEN Exit(1) /\ UNCHANGED <<io, text, pc>>
     ELSE \E document_text \in MainDocs, read \in BOOLEAN :
            IF ~read
            THEN Exit(1) /\ io' = [io EXCEPT !.read = "failed"]
                         /\ UNCHANGED <<text, pc>>
            ELSE /\ io' = [io EXCEPT !.read = "ok"]
                 /\ text' = document_text
                 /\ pc' = "start"
                 /\ main_pc' = "parse"
                 /\ UNCHANGED exit_status
  /\ UNCHANGED <<parts, i, q_num, questions, skipped_questions, stdout,
                 PDF_AVAILABLE, argv, json_file, csv_file, log_file>>

\* lines 399-408: json.dump; a failure ends main with 1
SaveJson ==
  /\ main_pc = "parse"
  /\ pc = "done"
  /\ \E written \in BOOLEAN :
       IF written
       THEN /\ json_file' = <<questions>>
            /\ io' = [io EXCEPT !.json = "ok"]
            /\ main_pc' = "save_csv"
            /\ UNCHANGED exit_status
       ELSE /\ Exit(1)
            /\ io' = [io EXCEPT !.json = "failed"]
            /\ UNCHANGED json_file
  /\ UNCHANGED <<text, pc, parts, i, q_num, questions, skipped_questions, stdout,
                 PDF_AVAILABLE, argv, csv_file, log_file>>

\* lines 49-78: the rows save_to_csv writes
CsvRows ==
  <<<<"ID", "Question", "Answer A (Correct)", "Answer B", "Answer C", "Answer D">>>>
  \o [k \in 1..Len(questions) |->
        <<ToString(questions[k].id), questions[k].question,
          questions[k].answers[1].text, questions[k].answers[2].text,
          questions[k].answers[3].text, questions[k].answers[4].text>>]

\* save_to_csv with a failure that ends main with 1
SaveCsvFatal ==
  /\ main_pc = "save_csv"
  /\ \E written \in BOOLEAN :
       IF written
       THEN /\ csv_file' = <<CsvRows>>
            /\ io' = [io EXCEPT !.csv = "ok"]
            /\ main_pc' = "write_log"
            /\ UNCHANGED exit_status
       ELSE /\ Exit(1)
            /\ io' = [io EXCEPT !.csv = "failed"]
            /\ UNCHANGED csv_file
  /\ UNCHANGED <<text, pc, parts, i, q_num, questions, skipped_questions, stdout,
                 PDF_AVAILABLE, argv, json_file, log_file>>

\* lines 410-416: save_to_csv; a failure is a warning and main goes on
SaveCsv ==
  /\ main_pc = "save_csv"
  /\ \E written \in BOOLEAN :
       IF written
       THEN /\ csv_file' = <<CsvRows>>
            /\ io' = [io EXCEPT !.csv = "ok"]
       ELSE /\ io' = [io EXCEPT !.csv = "failed"]
            /\ UNCHANGED csv_file
  /\ main_pc' = "write_log"
  /\ UNCHANGED <<text, pc, parts, i, q_num, questions, skipped_questions, stdout,
                 PDF_AVAILABLE, argv, exit_status, json_file, log_file>>

\* set(q['id'] for q in questions)
extracted_ids == {questions[k].id : k \in 1..Len(questions)}

\* set(range(1, expected_total + 1))
expected_ids == 1..expected_total

missing_ids == expected_ids \ extracted_ids

\* sorted(list(missing_ids)): the missing ids are ids of the expected range,
\* so the sorted list is that range without the extracted ids
missing_list ==
  SelectSeq([n \in 1..expected_total |-> n], LAMBDA n : n \in missing_ids)

\* str(start) or f"{start}-{end}"
RangeItem(start, end) ==
  IF start = end THEN ToString(start)
  ELSE ToString(start) \o "-" \o ToString(end)

\* lines 459-468: the loop over missing_list[1:], from the k-th element of
\* the list on.  end is always the element before the one the loop looks at,
\* so num == end + 1 says that the list goes on without a gap; the
\* iterations up to the next gap only move end, and are taken together here.
\* At a gap the range start-end is appended and a new range starts.  The
\* result is start, end and ranges as the loop leaves them.
RECURSIVE GroupFrom(_, _, _, _)
GroupFrom(list, k, start, ranges) ==
  LET gaps == {j \in k..Len(list) : list[j] # list[j - 1] + 1}
  IN  IF gaps = {}
      THEN [start |-> start, end |-> list[Len(list)], ranges |-> ranges]
      ELSE LET num == list[Min(gaps)]
               end == list[Min(gaps) - 1]
           IN  GroupFrom(list, Min(gaps) + 1, num,
                         Append(ranges, RangeItem(start, end)))

\* lines 455-468: start, end and ranges when the loop has ended
Grouped(list) == GroupFrom(list, 2, list[1], <<>>)

\* the grouping without the range that is open when the loop ends
RangesWithoutLast(list) == Grouped(list).ranges

\* lines 454-473: ranges, for a list that is not empty
Ranges(list) ==
  LET g == Grouped(list)
  IN  Append(g.ranges, RangeItem(g.start, g.end))

\* ', '.join(ranges)
RECURSIVE JoinComma(_)
JoinComma(ranges) ==
  IF ranges = <<>> THEN ""
  ELSE IF Len(ranges) = 1 THEN ranges[1]
  ELSE ranges[1] \o ", " \o JoinComma(Tail(ranges))

\* lines 421-486: what is written to the log file
LogText ==
  [total_extracted |-> Len(questions),
   skipped |-> Len(skipped_questions),
   expected |-> expected_total,
   missing |-> expected_total - Len(questions),
   skipped_details |-> skipped_questions,
   missing_section |->
     IF missing_ids # {}
     THEN <<[ranges |-> JoinComma(Ranges(missing_list)),
             total |-> Len(missing_list)]>>
     ELSE <<>>]

\* lines 418-490: the extraction log; a failure is a warning
WriteLog ==
  /\ main_pc = "write_log"
  /\ \E written \in BOOLEAN :
       IF written
       THEN /\ log_file' = <<LogText>>
            /\ io' = [io EXCEPT !.log = "ok"]
       ELSE /\ io' = [io EXCEPT !.log = "failed"]
            /\ UNCHANGED log_file
  /\ main_pc' = "summary"
  /\ UNCHANGED <<text, pc, parts, i, q_num, questions, skipped_questions, stdout,
                 PDF_AVAILABLE, argv, exit_status, json_file, csv_file>>

\* lines 492-514: the sample, the summary, return 0
Finish ==
  /\ main_pc = "summary"
  /\ Exit(0)
  /\ UNCHANGED <<text, pc, parts, i, q_num, questions, skipped_questions, stdout,
                 PDF_AVAILABLE, argv, io, json_file, csv_file, log_file>>

\* the script is started: the import of a PDF library has succeeded or not
MainInit ==
  /\ main_pc = "start"
  /\ PDF_AVAILABLE \in BOOLEAN
  /\ argv \in ArgvSet
  /\ io = NoIo
  /\ exit_status = <<>>
  /\ json_file = <<>>
  /\ csv_file = <<>>
  /\ log_file = <<>>
  /\ text = ""
  /\ pc = "idle"
  /\ parts = <<>>
  /\ i = 0
  /\ q_num = <<>>
  /\ questions = <<>>
  /\ skipped_questions = <<>>
  /\ stdout = <<>>

MainNext ==
  \/ CheckArgs
  \/ ReadInput
  \/ Segment
  \/ ProcessBlock
  \/ FailBlock
  \/ Return
  \/ SaveJson
  \/ SaveCsv
  \/ WriteLog
  \/ Finish

MainSpec == MainInit /\ [][MainNext]_vars

(***************************************************************************)
(* Properties of parse_azf_document                                        *)
(***************************************************************************)
\* at least one block has been processed; the last one had the number token
\* LastToken and the text LastBlock
Processed == pc \in {"loop", "done"} /\ Len(stdout) > 0

LastToken == Part(i - 2)

LastBlock == Part(i - 1)

LastKind == stdout[Len(stdout)].kind

LastRecord == questions[Len(questions)]

LastSkip == skipped_questions[Len(skipped_questions)]

\* the lines of a block as the document has them: trimmed, the blank ones left out
RawLines(block) ==
  LET raw == SplitLines(block)
  IN  SelectSeq([k \in 1..Len(raw) |-> Strip(raw[k])], LAMBDA l : l # "")

\* A block of stem lines followed by exactly four lines that start with A, B,
\* C and D, in that order, with no boilerplate in it: no stem line starts with
\* a letter token, no line is a page line and the clean-up of the block leaves
\* it as it is.
WellFormedBlock(block) ==
  LET ls == RawLines(block)
      n == Len(ls)
  IN  /\ n >= 5
      /\ IsOptionLine(ls[n - 3], "A")
      /\ IsOptionLine(ls[n - 2], "B")
      /\ IsOptionLine(ls[n - 1], "C")
      /\ IsOptionLine(ls[n], "D")
      /\ \A k \in 1..(n - 4) : ~IsAnswerLine(ls[k])
      /\ \A k \in 1..n : ~IsPageLine(ls[k])
      /\ CleanBlock(block) = block

StemLines(block) == SubSeq(RawLines(block), 1, Len(RawLines(block)) - 4)

OptionLine(block, k) == RawLines(block)[Len(RawLines(block)) - 4 + k]

\* the stem of a well-formed block without the lines that start with one of
\* the words Stand, richtige, correct, Seite, page
KeptStem(block) ==
  Strip(JoinSpace(SelectSeq(StemLines(block), LAMBDA l : ~IsHeaderLine(l))))

\* the A line of a well-formed block passes the test on its form
PlainALine(block) ==
  /\ ~EndsWithQuestionMark(OptionLine(block, 1))
  /\ 3 * Len(OptionLine(block, 1))
       <= 2 * (Len(OptionLine(block, 2)) + Len(OptionLine(block, 3))
                 + Len(OptionLine(block, 4)))

\* answers has length 4, letters A, B, C, D in order, correct only for A
FourAnswersAFirst(answers) ==
  /\ Len(answers) = 4
  /\ [k \in 1..4 |-> answers[k].letter] = <<"A", "B", "C", "D">>
  /\ Cardinality({answers[k].letter : k \in 1..4}) = 4
  /\ \A k \in 1..4 : answers[k].correct = (k = 1)

LastIsRecordOfBlock ==
  /\ LastKind = "extracted"
  /\ LastRecord.id = IntOf(LastToken)
  /\ FourAnswersAFirst(LastRecord.answers)

C2_RecordsHaveFourAnswers ==
  \A k \in 1..Len(questions) : FourAnswersAFirst(questions[k].answers)

C2_Witness ==
  /\ pc = "done"
  /\ Len(questions) > 0
  /\ Len(skipped_questions) > 0

\* the blocks the split found: parts holds the preamble and then a number
\* and a text for each block
NumberOfBlocks == (Len(parts) - 1) \div 2

\* C3, as stated: records plus skip entries with distinct ids equals the
\* number of segmented blocks.
C3_SkipAccountingDistinctIds ==
  pc = "done" =>
    Len(questions)
      + Cardinality({skipped_questions[k].id : k \in 1..Len(skipped_questions)})
      = NumberOfBlocks

\* C3, amended: after parse_azf_document returns, the number of records
\* plus the number of skip entries equals the number of segmented blocks, one
\* entry for each block; the skip entries of two blocks can carry one id.
C3_SkipAccounting ==
  pc = "done" =>
    /\ Len(questions) + Len(skipped_questions) = NumberOfBlocks
    /\ Len(stdout) = NumberOfBlocks

C3_Witness ==
  /\ pc = "done"
  /\ NumberOfBlocks >= 2
  /\ \E j, k \in 1..Len(skipped_questions) :
       j # k /\ skipped_questions[j].id = skipped_questions[k].id

\* C4: an iteration whose number parses appends a record if and only if
\* the stem is non-empty and longer than 10 characters and exactly four
\* options were assembled; otherwise it appends exactly one skip entry, whose
\* reason is non-empty, names each unmet condition with the measured length
\* or count, and whose answer_letters lists the letters recovered.
C4_RecordValidation ==
  [][(InLoop /\ IsIntLiteral(Part(i))) =>
       LET b == Block(Part(i + 1))
           stemOk == b.question_text # "" /\ Len(b.question_text) > 10
           countOk == Len(b.answers) = 4
           e == skipped_questions'[Len(skipped_questions')]
       IN  IF stemOk /\ countOk
           THEN /\ skipped_questions' = skipped_questions
                /\ questions' = Append(questions,
                     [id |-> IntOf(Part(i)), question |-> b.question_text,
                      answers |-> b.answers])
           ELSE /\ questions' = questions
                /\ Len(skipped_questions') = Len(skipped_questions) + 1
                /\ SubSeq(skipped_questions', 1, Len(skipped_questions))
                     = skipped_questions
                /\ e.id = PyInt(IntOf(Part(i)))
                /\ e.reason # ""
                /\ ~stemOk =>
                     Find(e.reason, "question text too short ("
                            \o ToString(Len(b.question_text)) \o " chars)", 1) > 0
                /\ ~countOk =>
                     Find(e.reason, "found " \o ToString(Len(b.answers))
                            \o " answers instead of 4", 1) > 0
                /\ e.answers_found = Len(b.answers)
                /\ e.answer_letters
                     = [k \in 1..Len(b.answers) |-> b.answers[k].letter]
    ]_vars

\* a block with a short stem and five options has been skipped
C4_Witness ==
  /\ Processed
  /\ LastKind = "skipped"
  /\ LastSkip.reason
       = "question text too short (4 chars), found 5 answers instead of 4"
  /\ LastSkip.answer_letters = <<"A", "A", "B", "C", "D">>

\* the entry was appended by the except clause
IsErrorEntry(e) == MatchAt(e.reason, 1, "Exception: ")

\* C5, as stated: the skip entry of a block whose number token does not
\* parse carries the placeholder 'unknown' as its id, never the id of an
\* earlier block.
C5_ErrorEntryIdUnknown ==
  \A k \in 1..Len(skipped_questions) :
    IsErrorEntry(skipped_questions[k]) => skipped_questions[k].id = PyStr("unknown")

\* the first line from position from to position last that starts with letter
\* and is not a footer line; 0 if there is none
FirstOption(lines, from, last, letter) ==
  LET S == {k \in from..last :
              ~IsFooterLine(lines[k]) /\ IsOptionLine(lines[k], letter)}
  IN  IF S = {} THEN 0 ELSE Min(S)

\* the B, C and D lines matched for the candidate A line at idx: the first B
\* line of the window, the first C line after it, the first D line after that;
\* <<>> if one is missing
MatchedBCD(lines, idx) ==
  LET last == IF idx + 19 < Len(lines) THEN idx + 19 ELSE Len(lines)
      bb == FirstOption(lines, idx + 1, last, "B")
      cc == IF bb = 0 THEN 0 ELSE FirstOption(lines, bb + 1, last, "C")
      dd == IF cc = 0 THEN 0 ELSE FirstOption(lines, cc + 1, last, "D")
  IN  IF dd = 0 THEN <<>> ELSE <<bb, cc, dd>>

\* a candidate: a line that starts with 'A ' and has its B, C and D lines
Candidate(lines, idx) ==
  /\ IsOptionLine(lines[idx], "A")
  /\ MatchedBCD(lines, idx) # <<>>

\* the candidate ends with a question mark, or is longer than twice the
\* average length of its B, C and D lines
Guarded(lines, idx) ==
  LET m == MatchedBCD(lines, idx)
  IN  \/ Ch(lines[idx], Len(lines[idx])) = "?"
      \/ 3 * Len(lines[idx])
           > 2 * (Len(lines[m[1]]) + Len(lines[m[2]]) + Len(lines[m[3]]))

\* C6: a candidate A line that ends with a question mark, or is longer
\* than twice the average length of its matched B, C and D lines, is never the
\* answer-start boundary; the scan goes on to the next candidate, so the
\* boundary is the first candidate that is not such a line (none if there is
\* none), and every candidate line before the boundary stays in the question
\* text.
C6_GuardedBoundary ==
  (Processed /\ IsIntLiteral(LastToken)) =>
    LET b == Block(LastBlock)
        lines == b.lines
        start == b.answer_start_idx
        real == {idx \in 1..Len(lines) :
                   Candidate(lines, idx) /\ ~Guarded(lines, idx)}
    IN  /\ start > 0 => Candidate(lines, start) /\ ~Guarded(lines, start)
        /\ \A idx \in 1..Len(lines) :
             (Candidate(lines, idx) /\ Guarded(lines, idx)) => start # idx
        /\ start = (IF real = {} THEN 0 ELSE Min(real))
        /\ \A idx \in 1..(start - 1) :
             Candidate(lines, idx) => Find(b.question_text, lines[idx], 1) > 0

\* a record came out of a block in which a candidate that ends with a question
\* mark stands before the real A, B, C, D sequence
C6_Witness ==
  /\ Processed
  /\ IsIntLiteral(LastToken)
  /\ LastKind = "extracted"
  /\ LET b == Block(LastBlock)
     IN  \E idx \in 1..(b.answer_start_idx - 1) :
           /\ Candidate(b.lines, idx)
           /\ Guarded(b.lines, idx)
           /\ b.lines[idx] = "A strange question?"
           /\ Find(LastRecord.question, "A strange question?", 1) > 0

\* the physical lines of the document
DocLines == SplitLines(text)

\* a line that re.split takes for the start of a block when it follows a
\* line break
StartsBlock(line) == NumberMatchAt("\n" \o line \o "\n", 1) # <<>>

\* the number of option lines among the first k lines
RECURSIVE OptionCount(_, _)
OptionCount(lines, k) ==
  IF k = 0 THEN 0
  ELSE OptionCount(lines, k - 1) + (IF IsAnswerLine(lines[k]) THEN 1 ELSE 0)

\* C7, as stated: whenever an option is split across two physical lines
\* and the second has no leading letter token, the two lines are joined with
\* exactly one space into the text of that option: nothing of the second line
\* is dropped, and no new option or block is started.
C7_TwoLineOptionJoined ==
  /\ (Processed /\ IsIntLiteral(LastToken)) =>
       LET b == Block(LastBlock)
           al == AnswerLines(b.lines, b.answer_start_idx)
       IN  \A k \in 1..(Len(al) - 1) :
             (/\ IsAnswerLine(al[k])
              /\ ~IsAnswerLine(al[k + 1])
              /\ (k + 2 <= Len(al) => IsAnswerLine(al[k + 2])))
               => /\ Len(b.answers) = OptionCount(al, Len(al))
                  /\ b.answers[OptionCount(al, k)].text
                       = AnswerTextPart(al[k]) \o " " \o al[k + 1]
  /\ \A k \in 1..(Len(DocLines) - 1) :
       (/\ pc = "done"
        /\ IsAnswerLine(Strip(DocLines[k]))
        /\ Strip(DocLines[k + 1]) # ""
        /\ ~IsAnswerLine(Strip(DocLines[k + 1])))
         => ~StartsBlock(DocLines[k + 1])

\* C9, as stated: the record of a block of a number, stem lines and A, B,
\* C, D option lines has the claimed number as its id, the trimmed stem lines
\* joined by single spaces as its question, and the content of each option
\* line after the letter as the text of that answer; the example document
\* yields the record of the specification.
C9_RecordFields ==
  /\ (/\ Processed
      /\ IsIntLiteral(LastToken)
      /\ LastKind = "extracted"
      /\ WellFormedBlock(LastBlock))
       => /\ LastRecord.id = IntOf(LastToken)
          /\ LastRecord.question = JoinSpace(StemLines(LastBlock))
          /\ \A k \in 1..4 :
               LastRecord.answers[k].text
                 = AnswerTextPart(OptionLine(LastBlock, k))
  /\ (text = ExampleDoc /\ pc = "done") =>
       questions =
         <<[id |-> 1, question |-> "What is the capital?",
            answers |->
              <<[letter |-> "A", text |-> "Paris", correct |-> TRUE],
                [letter |-> "B", text |-> "London", correct |-> FALSE],
                [letter |-> "C", text |-> "Berlin", correct |-> FALSE],
                [letter |-> "D", text |-> "Rome", correct |-> FALSE]>>]>>

(***************************************************************************)
(* Properties of main                                                      *)
(***************************************************************************)
\* the items of a comma-separated list, from position from on
RECURSIVE ItemsFrom(_, _)
ItemsFrom(s, from) ==
  LET c == Find(s, ", ", from)
  IN  IF c = 0 THEN <<SubSeq(s, from, Len(s))>>
      ELSE <<SubSeq(s, from, c - 1)>> \o ItemsFrom(s, c + 2)

\* the first and the last id an item stands for: "7" is 7 to 7, "3-9" is 3
\* to 9
ItemBounds(item) ==
  LET d == Find(item, "-", 1)
  IN  IF d = 0 THEN <<IntOf(item), IntOf(item)>>
      ELSE <<IntOf(SubSeq(item, 1, d - 1)), IntOf(SubSeq(item, d + 1, Len(item)))>>

\* an item is a number, or two numbers with a dash between them
IsItem(item) ==
  LET d == Find(item, "-", 1)
  IN  IF d = 0 THEN IsIntLiteral(item)
      ELSE /\ IsIntLiteral(SubSeq(item, 1, d - 1))
           /\ IsIntLiteral(SubSeq(item, d + 1, Len(item)))

\* the log has been written
LogWritten == main_pc \in {"summary", "exit"} /\ log_file # <<>>

\* C8: the missing ids written to the log are the ids of 1..289 that no
\* record has, and the comma-separated list of singletons and start-end
\* ranges, expanded item by item, gives those ids in increasing order, each
\* once, and nothing else.
C8_MissingIdReport ==
  LogWritten =>
    LET ids == {questions[k].id : k \in 1..Len(questions)}
        missing == {n \in 1..289 : n \notin ids}
        section == log_file[1].missing_section
    IN  IF missing = {} THEN section = <<>>
        ELSE /\ section # <<>>
             /\ section[1].total = Cardinality(missing)
             /\ LET items == ItemsFrom(section[1].ranges, 1)
                IN  /\ \A k \in 1..Len(items) :
                         /\ IsItem(items[k])
                         /\ ItemBounds(items[k])[1] <= ItemBounds(items[k])[2]
                         /\ k > 1 =>
                              ItemBounds(items[k - 1])[2] < ItemBounds(items[k])[1]
                    /\ UNION {ItemBounds(items[k])[1]..ItemBounds(items[k])[2] :
                                k \in 1..Len(items)} = missing

\* the log of a run that extracted the questions 2 and 288: singletons and
\* ranges, and a range that is open when the list ends
C8_Witness ==
  /\ LogWritten
  /\ {questions[k].id : k \in 1..Len(questions)} = {2, 288}
  /\ log_file[1].missing_section # <<>>
  /\ log_file[1].missing_section[1].ranges = "1, 3-287, 289"

\* the input is a PDF file
InputIsPdf == argv # <<>> /\ IsPdfPath(argv[1])

IsDigitToken(x) == x # "" /\ \A k \in 1..Len(x) : Ch(x, k) \in Digits

\* in the text c the token stands at the start of a line at position p, and
\* the block is what follows the whitespace after it
TokenThenBlockAt(c, p, token, block) ==
  /\ p = 1 \/ Ch(c, p - 1) = "\n"
  /\ p + Len(token) - 1 <= Len(c)
  /\ SubSeq(c, p, p + Len(token) - 1) = token
  /\ LET se == RunEnd(c, p + Len(token), Whitespace)
     IN  /\ se > p + Len(token)
         /\ se + Len(block) - 1 <= Len(c)
         /\ SubSeq(c, se, se + Len(block) - 1) = block

\* C11, as stated: every block the loop processes has as its claimed number
\* a digit token that the line-start pattern captured, and as its text the
\* span that follows that token up to the next match; the preamble before
\* the first match never shifts this pairing and never appears as a block or
\* as a number.
C11_SegmentationPairing ==
  Processed =>
    /\ (i - 2) % 2 = 1
    /\ IsDigitToken(LastToken)
    /\ LET c == StripBoilerplate(text)
       IN  \E p \in 1..Len(c) : TokenThenBlockAt(c, p, LastToken, LastBlock)

(***************************************************************************)
(* Properties of the clean-up of the answer texts                          *)
(***************************************************************************)
\* the answers of the last block before and after the clean-up of their texts
LastRawAnswers ==
  LET b == Block(LastBlock)
  IN  AssembleFrom(AnswerLines(b.lines, b.answer_start_idx), 1, <<>>, <<>>)

LastCleanAnswers == Block(LastBlock).answers

\* one of the notices the first clean-up of the text removes starts at
\* position p of s: the date footer, the notice on the correct answer in
\* German or in English, or a page marker
NoticeAt(s, p) ==
  \/ MatchAt(s, p, "Stand / As at::")
  \/ MatchAt(s, p, "richtige Antwort immer A /")
  \/ MatchAt(s, p, "correct answer always A")
  \/ (MatchAt(s, p, "Seite / page ") /\ PageMarkerEnd(s, p) # 0)

HasNotice(s) == \E p \in 1..Len(s) : NoticeAt(s, p)

\* C12, as stated: the clean-up of an option text strips only a trailing
\* fragment that one of the patterns of the first clean-up matches: what
\* stands before the fragment is kept, and a text that holds none of those
\* notices is left as it is apart from trimming.
C12_TrailingBoilerplateOnly ==
  (Processed /\ IsIntLiteral(LastToken)) =>
    \A k \in 1..Len(LastRawAnswers) :
      LET raw == LastRawAnswers[k].text
          clean == LastCleanAnswers[k].text
      IN  /\ ~HasNotice(raw) => clean = Strip(raw)
          /\ clean # Strip(raw) =>
               \E p \in 1..Len(raw) :
                 /\ NoticeAt(raw, p)
                 /\ clean = Strip(SubSeq(raw, 1, p - 1))

====
